---- MODULE Spec2Model ----
(***************************************************************************)
(* Channel resolvers of razeedash-api (app/apollo/resolvers/channel.js).   *)
(*                                                                         *)
(* One organization and one channel are modelled.  The shared state is the *)
(* Channel document (its existence, its name and its versions list of      *)
(* summaries), the DeployableVersion collection, the Subscription          *)
(* collection and the S3 bucket.  Every resolver invocation is a process;  *)
(* it takes one step per awaited call on state that changes (Channel,      *)
(* DeployableVersion, S3), the call's effect being atomic.  Awaits on      *)
(* state that no modelled operation changes (authorization,                *)
(* Subscription.count, encryption) are taken together with the step before *)
(* or after them.  Any awaited call may reject (CallFails, QueryFails).    *)
(*                                                                         *)
(* Spec has the three mutations of versions, SpecAll adds editChannel and  *)
(* channelVersion, SpecPool is one removeChannel of many S3 versions,      *)
(* SpecQuota addChannelVersion at the version limit, SpecValidate the      *)
(* argument checks of addChannelVersion, SpecSize addChannelVersion of a   *)
(* content at the size limit, SpecLive one invocation whose awaited calls  *)
(* all return.                                                             *)
(***************************************************************************)
EXTENDS Integers, Sequences, FiniteSets, TLC

\* ---------------------------------------------------------------- bounds
\* concurrent resolver invocations
NProcs == 2
\* versions the channel may hold before the first modelled invocation
InitVersions == 1
\* version names an addChannelVersion call may pass
MaxAddName == 2
\* S3-backed versions of the channel in the cascade specification SpecPool
PoolVersions == 7

\* CHANNEL_VERSION_LIMITS.MAX_TOTAL: imported from ../models/const, its value
\* is set outside the resolvers; here a small one above PoolVersions
MAX_TOTAL == 8

\* CHANNEL_VERSION_YAML_MAX_SIZE_LIMIT_MB: imported from ../models/const as
\* well
CHANNEL_VERSION_YAML_MAX_SIZE_LIMIT_MB == 1
\* the contents of the size specification SpecSize have from SizeMargin
\* characters less to SizeMargin characters more than the limit has bytes
SizeMargin == 2

\* ------------------------------------------------------ program constants
\* pLimit(5)
POOL_LIMIT == 5

Procs == 1..NProcs

\* A uuid / iv no version of an initial state uses; every invocation draws
\* its own (UUID() and crypto.randomBytes(16) never repeat).
UUID(p) == MAX_TOTAL + p

\* the YAML text an addChannelVersion call submits (content, or the file's
\* content): every call its own
Content(p) == UUID(p)

\* the name an editChannel call passes: every call its own
EditName(p) == UUID(p)

\* _.first(org.orgKeys)
OrgKey == "orgKey1"

AddNames == 1..MaxAddName

VARIABLES
  chanExists,   \* the Channel document exists
  versions,     \* channel.versions: sequence of version summaries
  records,      \* DeployableVersion collection (of the channel)
  objects,      \* S3 channel bucket: set of [key, data]
  subs,         \* Subscription collection: version uuids subscribed to
  chanName,     \* name of the Channel document
  subChannelName, \* channelName of the channel's Subscription documents
  s3conf,       \* conf.s3.endpoint is set
  op,           \* per invocation: the resolver it runs
  arg,          \* per invocation: name (add, edit) or version uuid
  payload,      \* per invocation: the content an addChannelVersion call
                \* submits, as materialized
  pc,           \* per invocation: the awaited call it is at
  result,       \* per invocation: how it ended
  ret,          \* per invocation: versionUuid / uuid / content returned,
                \* subCount of the error message
  lrec,         \* deployableVersionObj as read (sequence of 0 or 1)
  snap,         \* channel.versions as read (removeChannelVersion), versionObj
                \* as found (channelVersion)
  poolQueue,    \* removeChannel: p-limit queue (S3 keys not yet started)
  poolActive,   \* removeChannel: S3 deletions in flight
  poolFailed,   \* removeChannel: some S3 deletion rejected
  created       \* uuids of all records DeployableVersion.create ever wrote

vars == <<chanExists, versions, records, objects, subs, chanName,
          subChannelName, s3conf, op, arg, payload, pc, result, ret, lrec,
          snap, poolQueue, poolActive, poolFailed, created>>

\* uuids a removeChannelVersion call may pass: that of any version ever
\* created, or one that never was (0)
RemoveUuids == created \cup {0}

names == <<chanName, subChannelName>>
shared == <<chanExists, versions, records, objects, subs, s3conf, names,
            created>>
pool == <<poolQueue, poolActive, poolFailed>>

\* ----------------------------------------------------------- data helpers
\* result.url of encryptAndUploadFile: bucket + resourceName; the resource
\* name is org-channel-name, so within the one channel the key is the name.
S3Url(name) == <<"url", name>>

\* encryptOrgData(orgKey, content)
EncryptOrgData(orgKey, content) == <<"enc", orgKey, content>>

\* what decrypting with a wrong key or iv, or decrypting what is no
\* ciphertext, yields: no text any call submitted
Garbled == 0

\* decryptOrgData(orgKey, content)
DecryptOrgData(orgKey, data) ==
  IF data[1] = "enc" /\ data[2] = orgKey THEN data[3] ELSE Garbled

\* the object body encryptAndUploadFile stores: fileStream encrypted under
\* orgKey and iv
EncryptFile(orgKey, iv, content) == <<"aes", orgKey, iv, content>>

\* the decryption of getAndDecryptFile
DecryptFile(orgKey, iv, data) ==
  IF data[2] = orgKey /\ data[3] = iv THEN data[4] ELSE Garbled

\* A content as the payload checks see it: its characters of one byte, its
\* characters of two bytes in UTF-8, and whether it parses as YAML.
\* content.length: the characters are counted, not the bytes
StringLength(c) == c.ascii + c.wide

\* Buffer.byteLength(content)
ByteLength(c) == c.ascii + 2 * c.wide

\* the size limit in bytes
SizeLimit == CHANNEL_VERSION_YAML_MAX_SIZE_LIMIT_MB * 1024 * 1024

\* the payload checks of the try block: yamlSize against the limit, then
\* yaml.safeLoadAll; either throws a RazeeValidationError
PayloadRejected(c) == ByteLength(c) > SizeLimit \/ ~c.valid

\* a valid manifest of one byte
SmallPayload == [ascii |-> 1, wide |-> 0, valid |-> TRUE]

\* the bucket key parsed back from a record's content url
S3Key(rec) == rec.content[2]

\* deployableVersionObj of addChannelVersion
DeployableVersionObj(uuid, name, location, iv, content) ==
  [uuid |-> uuid, name |-> name, location |-> location, iv |-> iv,
   content |-> IF location = "s3" THEN S3Url(name)
               ELSE EncryptOrgData(OrgKey, content)]

\* versionObj of addChannelVersion
VersionObj(rec) ==
  [uuid |-> rec.uuid, name |-> rec.name, location |-> rec.location]

\* every version is stored inline
LocationInline == "mongo"

\* location chosen by addChannelVersion
Location == IF s3conf THEN "s3" ELSE "mongo"

\* s3Client.encryptAndUploadFile: put (overwrites the key)
S3Put(objs, key, iv, content) ==
  {o \in objs : o.key # key} \cup
  {[key |-> key, data |-> EncryptFile(OrgKey, iv, content)]}

\* s3Client.deleteObject
S3Delete(objs, key) == {o \in objs : o.key # key}

\* versionObjs.findIndex(v => v.uuid === uuid); 0 stands for -1
FindIndex(vs, uuid) ==
  IF \E i \in 1..Len(vs) : vs[i].uuid = uuid
  THEN CHOOSE i \in 1..Len(vs) :
         vs[i].uuid = uuid /\ \A j \in 1..(i-1) : vs[j].uuid # uuid
  ELSE 0

\* versionObjs.splice(vIndex, 1), vIndex >= 0
Splice(vs, i) == [j \in 1..(Len(vs)-1) |-> IF j < i THEN vs[j] ELSE vs[j+1]]

\* records in find() order (insertion order = uuid order here)
RECURSIVE SortedKeys(_)
SortedKeys(recs) ==
  IF recs = {} THEN <<>>
  ELSE LET r == CHOOSE x \in recs : \A y \in recs : x.uuid <= y.uuid
       IN <<S3Key(r)>> \o SortedKeys(recs \ {r})

\* ------------------------------------------------------------------ Init
\* A channel holding n versions created by earlier, completed
\* addChannelVersion calls (version i: uuid i, name i, iv i, content i),
\* under either configuration; the first of them possibly subscribed to.
InitChannel(n, loc) ==
  /\ chanExists = TRUE
  /\ chanName = 0
  /\ subChannelName = 0
  /\ records = {DeployableVersionObj(i, i, loc[i], i, i) : i \in 1..n}
  /\ versions =
       [i \in 1..n |-> VersionObj(DeployableVersionObj(i, i, loc[i], i, i))]
  /\ objects = {[key |-> i, data |-> EncryptFile(OrgKey, i, i)] :
                  i \in {j \in 1..n : loc[j] = "s3"}}
  /\ created = 1..n

InitProcs ==
  /\ op = [p \in Procs |-> "none"]
  /\ arg = [p \in Procs |-> 0]
  /\ pc = [p \in Procs |-> "idle"]
  /\ result = [p \in Procs |-> "none"]
  /\ ret = [p \in Procs |-> 0]
  /\ lrec = [p \in Procs |-> <<>>]
  /\ snap = [p \in Procs |-> <<>>]
  /\ poolQueue = [p \in Procs |-> <<>>]
  /\ poolActive = [p \in Procs |-> {}]
  /\ poolFailed = [p \in Procs |-> FALSE]

Init ==
  /\ \E n \in 0..InitVersions : \E loc \in [1..n -> {"mongo", "s3"}] :
       /\ InitChannel(n, loc)
       /\ subs \in {{}} \cup {{i} : i \in (1..n) \cap {1}}
  /\ s3conf \in BOOLEAN
  /\ InitProcs
  /\ payload = [p \in Procs |-> SmallPayload]

\* --------------------------------------------------------------- returns
\* the invocation ends: return or throw
\* (its local variables go out of scope)
Return(p, res, uuid) ==
  /\ pc' = [pc EXCEPT ![p] = "done"]
  /\ result' = [result EXCEPT ![p] = res]
  /\ ret' = [ret EXCEPT ![p] = uuid]
  /\ lrec' = [lrec EXCEPT ![p] = <<>>]
  /\ snap' = [snap EXCEPT ![p] = <<>>]

\* the invocation goes on to its next awaited call
Step(p, label) ==
  /\ pc' = [pc EXCEPT ![p] = label]
  /\ UNCHANGED <<result, ret>>

Goto(p, label) ==
  /\ Step(p, label)
  /\ UNCHANGED <<lrec, snap>>

\* ------------------------------------------------------ addChannelVersion
\* The arguments of a call as the argument checks see them: "undefined" is
\* an argument not supplied; file stands for the text of the uploaded file.
AddArgs ==
  [name : {"", "v1"},
   type : {"undefined", "yaml", "application/yaml", "json"},
   channel_uuid : {"", "c1"},
   content : {"undefined", "", "kind: A"},
   file : {"undefined", "", "kind: B"}]

\* !x for a string argument
Falsy(x) == x \in {"undefined", ""}

\* the argument checks: what is missing, "none" when the call passes
\* (a file supplied is an object, never falsy)
ArgsError(a) ==
  IF Falsy(a.name) THEN "name"
  ELSE IF Falsy(a.type) \/ (a.type # "yaml" /\ a.type # "application/yaml")
  THEN "type"
  ELSE IF Falsy(a.channel_uuid) THEN "channel_uuid"
  ELSE IF a.file = "undefined" /\ Falsy(a.content) THEN "file or content"
  ELSE "none"

\* if (file) content = await streamToString(...)
LoadedContent(a) == IF a.file # "undefined" THEN a.file ELSE a.content

\* the argument checks on arg[p], the arguments of the call
AvCheckArgs(p) ==
  /\ pc[p] = "idle"
  /\ op' = [op EXCEPT ![p] = "addChannelVersion"]
  /\ IF ArgsError(arg[p]) # "none"
     THEN Return(p, "RazeeValidationError", 0)
     ELSE Goto(p, "av_loadContent")
  /\ UNCHANGED <<shared, pool, arg, payload>>

\* the file, when there is one, replaces content
AvLoadContent(p) ==
  /\ pc[p] = "av_loadContent"
  /\ arg' = [arg EXCEPT ![p].content = LoadedContent(arg[p])]
  /\ Goto(p, "av_checkContent")
  /\ UNCHANGED <<shared, pool, op, payload>>

\* entry (Organization.findOne, the argument checks), Channel.findOne,
\* validAuth
AddChannelVersion(p) ==
  /\ pc[p] = "idle"
  /\ \E name \in AddNames :
       /\ op' = [op EXCEPT ![p] = "addChannelVersion"]
       /\ arg' = [arg EXCEPT ![p] = name]
  /\ IF ~chanExists
     THEN Return(p, "NotFoundError", 0)
     ELSE \E allowed \in BOOLEAN :
            IF allowed THEN Goto(p, "av_findVersions")
            ELSE Return(p, "RazeeForbiddenError", 0)
  /\ UNCHANGED <<shared, pool, payload>>

\* the names of the versions found are not compared
AvFindVersionsAnyName(p) ==
  /\ pc[p] = "av_findVersions"
  /\ Goto(p, "av_count")
  /\ UNCHANGED <<shared, pool, op, arg, payload>>

\* DeployableVersion.find and the duplicate-name pre-check
AvFindVersions(p) ==
  /\ pc[p] = "av_findVersions"
  /\ IF \E r \in records : r.name = arg[p]
     THEN Return(p, "RazeeValidationError", 0)
     ELSE Goto(p, "av_count")
  /\ UNCHANGED <<shared, pool, op, arg, payload>>

\* a channel of MAX_TOTAL versions is accepted
AvCountOffByOne(p) ==
  /\ pc[p] = "av_count"
  /\ IF Cardinality(records) > MAX_TOTAL
     THEN Return(p, "RazeeValidationError", 0)
     ELSE IF PayloadRejected(payload[p])
     THEN Return(p, "RazeeValidationError", 0)
     ELSE Goto(p, IF s3conf THEN "av_store" ELSE "av_create")
  /\ UNCHANGED <<shared, pool, op, arg, payload>>

\* DeployableVersion.count and the MAX_TOTAL check; the file, when there is
\* one, is read and the payload checked (no shared state); with no S3
\* endpoint configured encryptOrgData (no shared state) comes next
AvCount(p) ==
  /\ pc[p] = "av_count"
  /\ IF Cardinality(records) >= MAX_TOTAL
     THEN Return(p, "RazeeValidationError", 0)
     ELSE IF PayloadRejected(payload[p])
     THEN Return(p, "RazeeValidationError", 0)
     ELSE Goto(p, IF s3conf THEN "av_store" ELSE "av_create")
  /\ UNCHANGED <<shared, pool, op, arg, payload>>

\* conf.s3.endpoint is set: ensureBucketExists, encryptAndUploadFile
AvStore(p) ==
  /\ pc[p] = "av_store"
  /\ objects' = S3Put(objects, arg[p], UUID(p), Content(p))
  /\ Goto(p, "av_create")
  /\ UNCHANGED <<chanExists, versions, records, subs, s3conf, names, created,
                 pool, op, arg, payload>>

\* no unique index
NoUniqueIndex(recs, name) == FALSE

\* The unique index of the DeployableVersion collection on
\* (org_id, channel_id, name): a create of a second record of that name
\* is rejected by the persistence layer.
UniqueNameViolated(recs, name) == \E r \in recs : r.name = name

\* the rejection of DeployableVersion.create is swallowed
AvCreateUnchecked(p) ==
  /\ pc[p] = "av_create"
  /\ IF UniqueNameViolated(records, arg[p])
     THEN UNCHANGED <<records, created>>
     ELSE /\ records' = records \cup
                {DeployableVersionObj(UUID(p), arg[p], Location, UUID(p),
                                     Content(p))}
          /\ created' = created \cup {UUID(p)}
  /\ Goto(p, "av_push")
  /\ UNCHANGED <<chanExists, versions, objects, subs, s3conf, names, pool, op, arg, payload>>

\* getKubeOwnerName, DeployableVersion.create
AvCreate(p) ==
  /\ pc[p] = "av_create"
  /\ IF UniqueNameViolated(records, arg[p])
     THEN /\ Return(p, "DuplicateKeyError", 0)
          /\ UNCHANGED <<records, created>>
     ELSE /\ records' = records \cup
                {DeployableVersionObj(UUID(p), arg[p], Location, UUID(p),
                                     Content(p))}
          /\ created' = created \cup {UUID(p)}
          /\ Goto(p, "av_push")
  /\ UNCHANGED <<chanExists, versions, objects, subs, s3conf, names, pool, op, arg, payload>>

\* Channel.updateOne $push (matches no document once the channel is gone),
\* return { success, versionUuid }
AvPush(p) ==
  /\ pc[p] = "av_push"
  /\ versions' =
       IF chanExists
       THEN Append(versions,
              VersionObj(DeployableVersionObj(UUID(p), arg[p], Location, UUID(p),
                                     Content(p))))
       ELSE versions
  /\ Return(p, "ok", UUID(p))
  /\ UNCHANGED <<chanExists, records, objects, subs, s3conf, names, created,
                 pool, op, arg, payload>>

\* --------------------------------------------------- removeChannelVersion
\* entry, DeployableVersion.findOne({ org_id, uuid }),
\* Subscription.count({ org_id, version_uuid: uuid })
RemoveChannelVersion(p) ==
  /\ pc[p] = "idle"
  /\ \E uuid \in RemoveUuids :
       /\ op' = [op EXCEPT ![p] = "removeChannelVersion"]
       /\ arg' = [arg EXCEPT ![p] = uuid]
       /\ IF ~\E r \in records : r.uuid = uuid
          THEN Return(p, "NotFoundError", 0)
          ELSE IF uuid \in subs
          THEN Return(p, "RazeeValidationError",
                      Cardinality({v \in subs : v = uuid}))
          ELSE /\ lrec' = [lrec EXCEPT ![p] = <<CHOOSE r \in records : r.uuid = uuid>>]
               /\ Step(p, "rv_findChannel")
               /\ UNCHANGED snap
  /\ UNCHANGED <<shared, pool, payload>>

\* Channel.findOne, validAuth, channel.versions.find; the branch on
\* versionObj.location
RvFindChannel(p) ==
  /\ pc[p] = "rv_findChannel"
  /\ IF ~chanExists
     THEN Return(p, "NotFoundError", 0)
     ELSE \E allowed \in BOOLEAN :
            IF ~allowed
            THEN Return(p, "RazeeForbiddenError", 0)
            ELSE IF FindIndex(versions, arg[p]) = 0
            THEN Return(p, "NotFoundError", 0)
            ELSE /\ snap' = [snap EXCEPT ![p] = versions]
                 /\ UNCHANGED lrec
                 /\ IF versions[FindIndex(versions, arg[p])].location = "s3"
                    THEN Step(p, "rv_deleteS3")
                    ELSE Step(p, "rv_deleteRecord")
  /\ UNCHANGED <<shared, pool, op, arg, payload>>

\* deleteDeployableVersionFromS3(deployableVersionObj)
RvDeleteS3(p) ==
  /\ pc[p] = "rv_deleteS3"
  /\ objects' = S3Delete(objects, S3Key(lrec[p][1]))
  /\ Goto(p, "rv_deleteRecord")
  /\ UNCHANGED <<chanExists, versions, records, subs, s3conf, names, created,
                 pool, op, arg, payload>>

\* DeployableVersion.deleteOne({ org_id, uuid })
RvDeleteRecord(p) ==
  /\ pc[p] = "rv_deleteRecord"
  /\ records' = {r \in records : r.uuid # arg[p]}
  /\ Goto(p, "rv_update")
  /\ UNCHANGED <<chanExists, versions, objects, subs, s3conf, names, created,
                 pool, op, arg, payload>>

\* splice of the list read at Channel.findOne, Channel.updateOne
\* ({ versions: versionObjs }), return { uuid, success }
RvUpdate(p) ==
  /\ pc[p] = "rv_update"
  /\ versions' =
       IF chanExists THEN Splice(snap[p], FindIndex(snap[p], arg[p]))
       ELSE versions
  /\ Return(p, "ok", arg[p])
  /\ UNCHANGED <<chanExists, records, objects, subs, s3conf, names, created,
                 pool, op, arg, payload>>

\* ---------------------------------------------------------- removeChannel
\* the subscriptions of the channel are not counted
RemoveChannelNoSubCount(p) ==
  /\ pc[p] = "idle"
  /\ op' = [op EXCEPT ![p] = "removeChannel"]
  /\ IF ~chanExists
     THEN Return(p, "NotFoundError", 0)
     ELSE \E allowed \in BOOLEAN :
            IF ~allowed THEN Return(p, "RazeeForbiddenError", 0)
            ELSE Goto(p, "rc_findS3")
  /\ UNCHANGED <<shared, pool, arg, payload>>

\* entry, Channel.findOne, validAuth, Subscription.count({ org_id,
\* channel_uuid })
RemoveChannel(p) ==
  /\ pc[p] = "idle"
  /\ op' = [op EXCEPT ![p] = "removeChannel"]
  /\ IF ~chanExists
     THEN Return(p, "NotFoundError", 0)
     ELSE \E allowed \in BOOLEAN :
            IF ~allowed THEN Return(p, "RazeeForbiddenError", 0)
            ELSE IF Cardinality(subs) > 0
            THEN Return(p, "RazeeValidationError", Cardinality(subs))
            ELSE Goto(p, "rc_findS3")
  /\ UNCHANGED <<shared, pool, arg, payload>>

\* DeployableVersion.find({ location: 's3' }); every deletion is handed to
\* limit(), Promise.all awaits them
RcFindS3(p) ==
  /\ pc[p] = "rc_findS3"
  /\ poolQueue' = [poolQueue EXCEPT
                     ![p] = SortedKeys({r \in records : r.location = "s3"})]
  /\ Goto(p, "rc_pool")
  /\ UNCHANGED <<shared, poolActive, poolFailed, op, arg, payload>>

\* every queued deletion is started at once
PoolStartUnlimited(p) ==
  /\ poolQueue[p] # <<>>
  /\ poolActive' = [poolActive EXCEPT ![p] = @ \cup {Head(poolQueue[p])}]
  /\ poolQueue' = [poolQueue EXCEPT ![p] = Tail(@)]
  /\ UNCHANGED <<shared, lrec, snap, poolFailed, op, arg, payload, pc,
               result, ret>>

\* p-limit starts the next queued deletion while fewer than POOL_LIMIT run
PoolStart(p) ==
  /\ poolQueue[p] # <<>>
  /\ Cardinality(poolActive[p]) < POOL_LIMIT
  /\ poolActive' = [poolActive EXCEPT ![p] = @ \cup {Head(poolQueue[p])}]
  /\ poolQueue' = [poolQueue EXCEPT ![p] = Tail(@)]
  /\ UNCHANGED <<shared, lrec, snap, poolFailed, op, arg, payload, pc,
               result, ret>>

\* Promise.allSettled in place of Promise.all: a rejection is not thrown
PoolFinishSettled(p) ==
  /\ poolQueue[p] = <<>> \/ Cardinality(poolActive[p]) >= POOL_LIMIT
  /\ \E key \in poolActive[p] : \E ok \in BOOLEAN :
       /\ poolActive' = [poolActive EXCEPT ![p] = @ \ {key}]
       /\ objects' = IF ok THEN S3Delete(objects, key) ELSE objects
       /\ poolFailed' = [poolFailed EXCEPT ![p] = @ \/ ~ok]
  /\ UNCHANGED <<chanExists, versions, records, subs, s3conf, names, created,
                 poolQueue, op, arg, payload, pc, result, ret, lrec,
                 snap>>

\* the slot of a deletion that has settled is not given back
PoolFinishKeepsSlot(p) ==
  /\ poolQueue[p] = <<>> \/ Cardinality(poolActive[p]) >= POOL_LIMIT
  /\ \E key \in poolActive[p] : \E ok \in BOOLEAN :
       /\ poolActive' = poolActive
       /\ IF ok
          THEN /\ objects' = S3Delete(objects, key)
               /\ UNCHANGED <<poolFailed, pc, result, ret, lrec, snap>>
          ELSE /\ objects' = objects
               /\ poolFailed' = [poolFailed EXCEPT ![p] = TRUE]
               /\ IF pc[p] = "rc_pool"
                  THEN Return(p, "RazeeQueryError", 0)
                  ELSE UNCHANGED <<pc, result, ret, lrec, snap>>
  /\ UNCHANGED <<chanExists, versions, records, subs, s3conf, names, created,
                 poolQueue, op, arg, payload>>

\* a running s3Client.deleteObject settles (p-limit starts a deletion as soon
\* as a slot is free, so none settles while one can be started); the first
\* rejection rejects Promise.all and the resolver throws RazeeQueryError
\* from its catch
PoolFinish(p) ==
  /\ poolQueue[p] = <<>> \/ Cardinality(poolActive[p]) >= POOL_LIMIT
  /\ \E key \in poolActive[p] : \E ok \in BOOLEAN :
       /\ poolActive' = [poolActive EXCEPT ![p] = @ \ {key}]
       /\ IF ok
          THEN /\ objects' = S3Delete(objects, key)
               /\ UNCHANGED <<poolFailed, pc, result, ret, lrec, snap>>
          ELSE /\ objects' = objects
               /\ poolFailed' = [poolFailed EXCEPT ![p] = TRUE]
               /\ IF pc[p] = "rc_pool"
                  THEN Return(p, "RazeeQueryError", 0)
                  ELSE UNCHANGED <<pc, result, ret, lrec, snap>>
  /\ UNCHANGED <<chanExists, versions, records, subs, s3conf, names, created,
                 poolQueue, op, arg, payload>>

\* Promise.all resolved: DeployableVersion.deleteMany({ org_id, channel_id })
RcDeleteMany(p) ==
  /\ pc[p] = "rc_pool"
  /\ poolQueue[p] = <<>>
  /\ poolActive[p] = {}
  /\ records' = {}
  /\ Goto(p, "rc_deleteChannel")
  /\ UNCHANGED <<chanExists, versions, objects, subs, s3conf, names, created,
                 pool, op, arg, payload>>

\* Channel.deleteOne, return { uuid, success }
RcDeleteChannel(p) ==
  /\ pc[p] = "rc_deleteChannel"
  /\ chanExists' = FALSE
  /\ versions' = <<>>
  /\ Return(p, "ok", 0)
  /\ UNCHANGED <<records, objects, subs, s3conf, names, created, pool, op, arg, payload>>

\* ------------------------------------------------------------ editChannel
\* Channel.updateOne comes before validAuth
EditChannelUpdateFirst(p) ==
  /\ pc[p] = "idle"
  /\ op' = [op EXCEPT ![p] = "editChannel"]
  /\ arg' = [arg EXCEPT ![p] = EditName(p)]
  /\ IF ~chanExists
     THEN Return(p, "NotFoundError", 0) /\ UNCHANGED chanName
     ELSE /\ chanName' = EditName(p)
          /\ \E allowed \in BOOLEAN :
               IF allowed THEN Goto(p, "ec_subs")
               ELSE Return(p, "RazeeForbiddenError", 0)
  /\ UNCHANGED <<chanExists, versions, records, objects, subs, s3conf,
                 subChannelName, created, pool, payload>>

\* entry, Channel.findOne, validAuth
EditChannel(p) ==
  /\ pc[p] = "idle"
  /\ op' = [op EXCEPT ![p] = "editChannel"]
  /\ arg' = [arg EXCEPT ![p] = EditName(p)]
  /\ IF ~chanExists
     THEN Return(p, "NotFoundError", 0)
     ELSE \E allowed \in BOOLEAN :
            IF allowed THEN Goto(p, "ec_update")
            ELSE Return(p, "RazeeForbiddenError", 0)
  /\ UNCHANGED <<shared, pool, payload>>

\* Channel.updateOne({ org_id, uuid }, { $set: { name, tags } })
EcUpdate(p) ==
  /\ pc[p] = "ec_update"
  /\ chanName' = IF chanExists THEN arg[p] ELSE chanName
  /\ Goto(p, "ec_subs")
  /\ UNCHANGED <<chanExists, versions, records, objects, subs, s3conf,
                 subChannelName, created, pool, op, arg, payload>>

\* Subscription.updateMany({ org_id, channel_uuid }, { $set: { channelName } }),
\* return { uuid, success, name, tags }
EcSubs(p) ==
  /\ pc[p] = "ec_subs"
  /\ subChannelName' = IF subs # {} THEN arg[p] ELSE subChannelName
  /\ Return(p, "ok", 0)
  /\ UNCHANGED <<chanExists, versions, records, objects, subs, s3conf,
                 chanName, created, pool, op, arg, payload>>

\* --------------------------------------------------------- channelVersion
\* Every throw inside the try block, the NotFoundErrors included, is caught
\* and replaced by the RazeeQueryError of the catch block.
\* entry, Organization.findOne, Channel.findOne (the throw for a missing
\* channel reads channel_uuid before its declaration: a ReferenceError,
\* caught as well), validAuth, channel.versions.find
ChannelVersion(p) ==
  /\ pc[p] = "idle"
  /\ \E uuid \in RemoveUuids :
       /\ op' = [op EXCEPT ![p] = "channelVersion"]
       /\ arg' = [arg EXCEPT ![p] = uuid]
       /\ IF ~chanExists
          THEN Return(p, "RazeeQueryError", 0)
          ELSE \E allowed \in BOOLEAN :
                 IF ~allowed
                 THEN Return(p, "RazeeQueryError", 0)
                 ELSE IF FindIndex(versions, uuid) = 0
                 THEN Return(p, "RazeeQueryError", 0)
                 ELSE /\ snap' = [snap EXCEPT
                                    ![p] = <<versions[FindIndex(versions, uuid)]>>]
                      /\ UNCHANGED lrec
                      /\ Step(p, "cv_findRecord")
  /\ UNCHANGED <<shared, pool, payload>>

\* the backend is chosen by the configuration at the time of the read
CvFindRecordByConf(p) ==
  /\ pc[p] = "cv_findRecord"
  /\ IF ~\E r \in records : r.uuid = arg[p]
     THEN Return(p, "RazeeQueryError", 0)
     ELSE LET r == CHOOSE x \in records : x.uuid = arg[p]
          IN IF Location = "mongo"
             THEN Return(p, "ok", DecryptOrgData(OrgKey, r.content))
             ELSE /\ lrec' = [lrec EXCEPT ![p] = <<r>>]
                  /\ UNCHANGED snap
                  /\ Step(p, "cv_getS3")
  /\ UNCHANGED <<shared, pool, op, arg, payload>>

\* DeployableVersion.findOne({ org_id, channel_id, uuid }); the branch on
\* versionObj.location, decryptOrgData for 'mongo'
CvFindRecord(p) ==
  /\ pc[p] = "cv_findRecord"
  /\ IF ~\E r \in records : r.uuid = arg[p]
     THEN Return(p, "RazeeQueryError", 0)
     ELSE LET r == CHOOSE x \in records : x.uuid = arg[p]
          IN IF snap[p][1].location = "mongo"
             THEN Return(p, "ok", DecryptOrgData(OrgKey, r.content))
             ELSE /\ lrec' = [lrec EXCEPT ![p] = <<r>>]
                  /\ UNCHANGED snap
                  /\ Step(p, "cv_getS3")
  /\ UNCHANGED <<shared, pool, op, arg, payload>>

\* s3Client.getAndDecryptFile(bucketName, path, orgKey, iv) for 's3' (it
\* rejects when the bucket holds no object of that key), return
\* deployableVersionObj
CvGetS3(p) ==
  /\ pc[p] = "cv_getS3"
  /\ IF ~\E o \in objects : o.key = S3Key(lrec[p][1])
     THEN Return(p, "RazeeQueryError", 0)
     ELSE LET o == CHOOSE x \in objects : x.key = S3Key(lrec[p][1])
          IN Return(p, "ok", DecryptFile(OrgKey, lrec[p][1].iv, o.data))
  /\ UNCHANGED <<shared, pool, op, arg, payload>>

\* what a channelVersion of uuid, authorized and run with no other
\* invocation in between, ends with: <<result, content returned>>
QueryResult(uuid) ==
  IF ~chanExists \/ FindIndex(versions, uuid) = 0
     \/ ~\E r \in records : r.uuid = uuid
  THEN <<"RazeeQueryError", 0>>
  ELSE LET r == CHOOSE x \in records : x.uuid = uuid
       IN IF versions[FindIndex(versions, uuid)].location = "mongo"
          THEN <<"ok", DecryptOrgData(OrgKey, r.content)>>
          ELSE IF ~\E o \in objects : o.key = S3Key(r)
          THEN <<"RazeeQueryError", 0>>
          ELSE LET o == CHOOSE x \in objects : x.key = S3Key(r)
               IN <<"ok", DecryptFile(OrgKey, r.iv, o.data)>>

\* ------------------------------------------------------- rejected awaits
\* the awaits of addChannelVersion outside a try block
AddAwaits ==
  {"av_findVersions", "av_count", "av_store", "av_create", "av_push"}

\* the awaits inside the try blocks of removeChannelVersion and removeChannel
\* (the deletions of the pool reject through PoolFinish)
RemoveAwaits ==
  {"rv_findChannel", "rv_deleteS3", "rv_deleteRecord", "rv_update",
   "rc_findS3", "rc_deleteChannel"}

\* The awaited call rejects (or the process dies there) without its effect:
\* addChannelVersion lets the error through, the remove resolvers wrap it.
CallFails(p) ==
  /\ \/ /\ pc[p] = "idle"
        /\ \E o \in {"addChannelVersion", "removeChannelVersion", "removeChannel"} :
             /\ op' = [op EXCEPT ![p] = o]
             /\ Return(p, IF o = "addChannelVersion" THEN "Error"
                          ELSE "RazeeQueryError", 0)
        /\ UNCHANGED <<arg, payload>>
     \/ /\ pc[p] \in AddAwaits
        /\ Return(p, "Error", 0)
        /\ UNCHANGED <<op, arg, payload>>
     \/ /\ pc[p] \in RemoveAwaits
        /\ Return(p, "RazeeQueryError", 0)
        /\ UNCHANGED <<op, arg, payload>>
     \/ /\ pc[p] = "rc_pool" /\ poolQueue[p] = <<>> /\ poolActive[p] = {}
        /\ Return(p, "RazeeQueryError", 0)
        /\ UNCHANGED <<op, arg, payload>>
  /\ UNCHANGED <<shared, pool>>

\* the awaits of editChannel and channelVersion, all inside try blocks
QueryAwaits == {"ec_update", "ec_subs", "cv_findRecord", "cv_getS3"}

\* The awaited call of editChannel or channelVersion rejects: the catch
\* block throws RazeeQueryError.  (A rejection of the first lookups of
\* channelVersion ends as its refused authorization does.)
QueryFails(p) ==
  /\ \/ /\ pc[p] = "idle"
        /\ op' = [op EXCEPT ![p] = "editChannel"]
        /\ UNCHANGED <<arg, payload>>
     \/ /\ pc[p] \in QueryAwaits
        /\ UNCHANGED <<op, arg, payload>>
  /\ Return(p, "RazeeQueryError", 0)
  /\ UNCHANGED <<shared, pool>>

\* ---------------------------------------------------------- specification
Next ==
  \E p \in Procs :
    \/ AddChannelVersion(p) \/ AvFindVersions(p)
    \/ AvCount(p) \/ AvStore(p) \/ AvCreate(p) \/ AvPush(p)
    \/ RemoveChannelVersion(p)
    \/ RvFindChannel(p) \/ RvDeleteS3(p) \/ RvDeleteRecord(p) \/ RvUpdate(p)
    \/ RemoveChannel(p) \/ RcFindS3(p)
    \/ PoolStart(p) \/ PoolFinish(p) \/ RcDeleteMany(p) \/ RcDeleteChannel(p)
    \/ CallFails(p)

Spec == Init /\ [][Next]_vars

\* One removeChannel invocation on a channel of up to PoolVersions
\* S3-backed versions.
InitPool ==
  /\ \E n \in 0..PoolVersions : InitChannel(n, [i \in 1..n |-> "s3"])
  /\ subs = {}
  /\ s3conf = TRUE
  /\ InitProcs
  /\ payload = [p \in Procs |-> SmallPayload]

NextPool ==
  \E p \in {1} :
    \/ RemoveChannel(p) \/ RcFindS3(p)
    \/ PoolStart(p) \/ PoolFinish(p) \/ RcDeleteMany(p) \/ RcDeleteChannel(p)
    \/ CallFails(p)

SpecPool == InitPool /\ [][NextPool]_vars

\* addChannelVersion invocations on a channel that holds MAX_TOTAL versions
\* or one less, all created under the configuration in force; their names
\* are none of AddNames.
InitQuota ==
  /\ s3conf \in BOOLEAN
  /\ \E n \in {MAX_TOTAL - 1, MAX_TOTAL} :
       /\ chanExists = TRUE
       /\ chanName = 0
       /\ subChannelName = 0
       /\ records =
            {DeployableVersionObj(i, MaxAddName + i, Location, i, i) : i \in 1..n}
       /\ versions =
            [i \in 1..n |->
               VersionObj(DeployableVersionObj(i, MaxAddName + i, Location, i, i))]
       /\ objects =
            IF s3conf
            THEN {[key |-> MaxAddName + i, data |-> EncryptFile(OrgKey, i, i)] :
                    i \in 1..n}
            ELSE {}
       /\ created = 1..n
  /\ subs = {}
  /\ InitProcs
  /\ payload = [p \in Procs |-> SmallPayload]

NextQuota ==
  \E p \in Procs :
    \/ AddChannelVersion(p) \/ AvFindVersions(p)
    \/ AvCount(p) \/ AvStore(p) \/ AvCreate(p) \/ AvPush(p)
    \/ CallFails(p)

SpecQuota == InitQuota /\ [][NextQuota]_vars

\* One addChannelVersion invocation whose content is about as long as the
\* size limit allows.
Payloads ==
  [ascii : (SizeLimit - SizeMargin)..(SizeLimit + SizeMargin),
   wide : 0..1,
   valid : BOOLEAN]

InitSize ==
  /\ \E n \in 0..InitVersions : \E loc \in [1..n -> {"mongo", "s3"}] :
       InitChannel(n, loc)
  /\ subs = {}
  /\ s3conf \in BOOLEAN
  /\ InitProcs
  /\ \E c \in Payloads : payload = [p \in Procs |-> c]

NextSize ==
  \E p \in {1} :
    \/ AddChannelVersion(p) \/ AvFindVersions(p)
    \/ AvCount(p) \/ AvStore(p) \/ AvCreate(p) \/ AvPush(p)
    \/ CallFails(p)

SpecSize == InitSize /\ [][NextSize]_vars

\* The arguments of one addChannelVersion call through the argument checks
\* and the loading of the content.
InitValidate ==
  /\ InitChannel(0, <<>>)
  /\ subs = {}
  /\ s3conf = FALSE
  /\ \E a \in AddArgs : arg = [p \in Procs |-> a]
  /\ payload = [p \in Procs |-> SmallPayload]
  /\ op = [p \in Procs |-> "none"]
  /\ pc = [p \in Procs |-> "idle"]
  /\ result = [p \in Procs |-> "none"]
  /\ ret = [p \in Procs |-> 0]
  /\ lrec = [p \in Procs |-> <<>>]
  /\ snap = [p \in Procs |-> <<>>]
  /\ poolQueue = [p \in Procs |-> <<>>]
  /\ poolActive = [p \in Procs |-> {}]
  /\ poolFailed = [p \in Procs |-> FALSE]

NextValidate == \E p \in {1} : AvCheckArgs(p) \/ AvLoadContent(p)

SpecValidate == InitValidate /\ [][NextValidate]_vars

\* The invocations are interchangeable: of the runs that differ only in
\* which invocation runs which resolver with which argument, SpecAll keeps
\* those in which the invocations are in the order of their resolvers
\* (OpRank) and, for one resolver, of their arguments.
OpRank(o) ==
  CASE o = "addChannelVersion" -> 1
    [] o = "removeChannelVersion" -> 2
    [] o = "removeChannel" -> 3
    [] o = "editChannel" -> 4
    [] o = "channelVersion" -> 5

InOrder ==
  \A p, q \in Procs :
    (p < q /\ op[p] # "none" /\ op[q] # "none") =>
      IF op[p] = op[q] THEN arg[p] <= arg[q]
      ELSE OpRank(op[p]) < OpRank(op[q])

\* invocation p may run resolver o
Enters(p, o) ==
  \A q \in Procs \ {p} :
    IF op[q] = "none" THEN TRUE
    ELSE IF q < p THEN OpRank(op[q]) <= OpRank(o)
    ELSE OpRank(o) <= OpRank(op[q])

\* The three mutations together with editChannel and channelVersion.
NextAll ==
  \E p \in Procs :
    \/ Enters(p, "addChannelVersion") /\ AddChannelVersion(p) /\ InOrder'
    \/ AvFindVersions(p)
    \/ AvCount(p) \/ AvStore(p) \/ AvCreate(p) \/ AvPush(p)
    \/ Enters(p, "removeChannelVersion") /\ RemoveChannelVersion(p) /\ InOrder'
    \/ RvFindChannel(p) \/ RvDeleteS3(p) \/ RvDeleteRecord(p) \/ RvUpdate(p)
    \/ Enters(p, "removeChannel") /\ RemoveChannel(p) /\ InOrder'
    \/ RcFindS3(p)
    \/ PoolStart(p) \/ PoolFinish(p) \/ RcDeleteMany(p) \/ RcDeleteChannel(p)
    \/ CallFails(p) /\ InOrder'
    \/ Enters(p, "editChannel") /\ EditChannel(p) /\ InOrder'
    \/ EcUpdate(p) \/ EcSubs(p)
    \/ Enters(p, "channelVersion") /\ ChannelVersion(p) /\ InOrder'
    \/ CvFindRecord(p) \/ CvGetS3(p)
    \/ QueryFails(p) /\ InOrder'

SpecAll == Init /\ [][NextAll]_vars

\* One invocation of addChannelVersion, removeChannelVersion, removeChannel
\* or channelVersion on the channel of Init or on that of InitPool, every
\* awaited call of which returns: the invocation takes its next step (or
\* fails there), and p-limit goes on with the deletions handed to it.
Continue(p) ==
  \/ AvFindVersions(p) \/ AvCount(p) \/ AvStore(p) \/ AvCreate(p) \/ AvPush(p)
  \/ RvFindChannel(p) \/ RvDeleteS3(p) \/ RvDeleteRecord(p) \/ RvUpdate(p)
  \/ RcFindS3(p) \/ PoolStart(p) \/ PoolFinish(p)
  \/ RcDeleteMany(p) \/ RcDeleteChannel(p)
  \/ CvFindRecord(p) \/ CvGetS3(p)

InitLive == Init \/ InitPool

NextLive ==
  \E p \in {1} :
    \/ AddChannelVersion(p) \/ RemoveChannelVersion(p) \/ RemoveChannel(p)
    \/ ChannelVersion(p)
    \/ Continue(p)
    \/ CallFails(p) \/ QueryFails(p)

SpecLive ==
  InitLive /\ [][NextLive]_vars /\ \A p \in Procs : WF_vars(Continue(p))

\* ================================================================ claims
SummaryUuids == {versions[i].uuid : i \in 1..Len(versions)}

\* the list without the entries of uuid, order kept
RemoveEntry(vs, uuid) == SelectSeq(vs, LAMBDA v : v.uuid # uuid)

Quiet(p) == pc[p] \in {"idle", "done"}

\* ---- C1
\* C1: in every reachable state in which no addChannelVersion is between its
\* record write and its summary append, summaries and records correspond
\* one to one: every summary matches exactly one record on uuid, name and
\* location, and every record has exactly one summary.
C1_OneToOne ==
  (\A p \in Procs : pc[p] # "av_push") =>
    /\ \A i \in 1..Len(versions) :
         Cardinality({r \in records : VersionObj(r) = versions[i]}) = 1
    /\ \A r \in records :
         Cardinality({i \in 1..Len(versions) : versions[i].uuid = r.uuid}) = 1

\* ---- C2
\* C2: when a delete sequence (removeChannelVersion, removeChannel) running
\* alone has stopped on an error between two of its writes, no summary of
\* the channel lacks its record.
C2_DeleteLeavesNoDanglingSummary ==
  \A p \in Procs :
    ( /\ op[p] \in {"removeChannelVersion", "removeChannel"}
      /\ pc[p] = "done"
      /\ result[p] = "RazeeQueryError"
      /\ \A q \in Procs \ {p} : pc[q] = "idle" )
    => \A i \in 1..Len(versions) : \E r \in records : r.uuid = versions[i].uuid

\* ---- C3
\* C3: the record is created before the summary is appended: every summary
\* of the channel's list is that of a record DeployableVersion.create has
\* written, and an addChannelVersion that is about to append its summary has
\* written its record (if it stops there, a record without summary is left).
C3_RecordBeforeSummary ==
  /\ \A i \in 1..Len(versions) : versions[i].uuid \in created
  /\ \A p \in Procs : pc[p] = "av_push" => UUID(p) \in created

\* an addChannelVersion stopped between its two writes (an orphan record),
\* another one has appended its summary
C3_Witness ==
  \E p, q \in Procs :
    /\ op[p] = "addChannelVersion" /\ pc[p] = "done" /\ result[p] = "Error"
    /\ \E r \in records : r.uuid = UUID(p)
    /\ UUID(p) \notin SummaryUuids
    /\ op[q] = "addChannelVersion" /\ result[q] = "ok"
    /\ UUID(q) \in SummaryUuids

\* ---- C4
\* versions added successfully: those of the initial state and those of the
\* addChannelVersion calls that returned success
Added ==
  (created \ {UUID(p) : p \in Procs}) \cup
  {UUID(p) : p \in {q \in Procs : op[q] = "addChannelVersion" /\ result[q] = "ok"}}

\* versions whose removeChannelVersion returned success
Removed ==
  {arg[p] : p \in {q \in Procs : op[q] = "removeChannelVersion" /\ result[q] = "ok"}}

\* C4: once all interleaved addChannelVersion and removeChannelVersion calls
\* have completed (no removeChannel involved), the list holds the summary of
\* every version added and not removed, and of no version removed.
C4_NoLostUpdate ==
  ( /\ \A p \in Procs : Quiet(p)
    /\ \A p \in Procs : op[p] # "removeChannel" )
  => /\ \A u \in Added \ Removed : u \in SummaryUuids
     /\ \A u \in Removed : u \notin SummaryUuids

\* ---- C5
\* C5: no two version records of the channel have the same name.
C5_UniqueNames ==
  \A r1, r2 \in records : r1.name = r2.name => r1 = r2

\* two addChannelVersion calls of one name both passed the pre-check; the
\* create of the second was rejected
C5_Witness ==
  \E p, q \in Procs :
    /\ p # q
    /\ op[p] = "addChannelVersion" /\ op[q] = "addChannelVersion"
    /\ arg[p] = arg[q]
    /\ result[q] = "DuplicateKeyError"
    /\ \E r \in records : r.uuid = UUID(p) /\ r.name = arg[q]

\* ---- C6
\* C6: the step by which addChannelVersion returns success appends exactly
\* one entry to the end of the channel's list, that of the one record its
\* create wrote, changes no other entry and no record, and returns the
\* record's uuid.
C6_AddPostcondition ==
  [][\A p \in Procs :
       (pc[p] = "av_push" /\ pc'[p] = "done" /\ result'[p] = "ok") =>
         /\ chanExists'
         /\ Len(versions') = Len(versions) + 1
         /\ SubSeq(versions', 1, Len(versions)) = versions
         /\ Cardinality({r \in records' :
                           VersionObj(r) = versions'[Len(versions')]}) = 1
         /\ versions'[Len(versions')].uuid = ret'[p]
         /\ records' = records]_vars

\* ---- C7
\* C7: the step by which removeChannelVersion of v returns success leaves
\* no record and no summary of v, and the list it leaves is the previous
\* list without v's entry; the other records are unchanged.
C7_RemovePostcondition ==
  [][\A p \in Procs :
       (pc[p] = "rv_update" /\ pc'[p] = "done" /\ result'[p] = "ok") =>
         /\ ~\E r \in records' : r.uuid = arg[p]
         /\ arg[p] \notin {versions'[i].uuid : i \in 1..Len(versions')}
         /\ versions' = RemoveEntry(versions, arg[p])
         /\ records' = records]_vars

\* ---- C8
\* C8: once removeChannel has returned success, the channel document is gone
\* and no version record and no stored object of the channel remains.
C8_CascadeComplete ==
  \A p \in Procs :
    (op[p] = "removeChannel" /\ pc[p] = "done" /\ result[p] = "ok") =>
      /\ ~chanExists
      /\ records = {}
      /\ objects = {}

\* ---- C9
\* C9: a removeChannel one of whose S3 deletions failed has ended with the
\* error; one that has executed its deleteMany (it is at Channel.deleteOne,
\* or has returned success) had no failed deletion and has none pending.
C9_AbortOnFailure ==
  \A p \in Procs :
    /\ poolFailed[p] => pc[p] = "done" /\ result[p] = "RazeeQueryError"
    /\ ( \/ pc[p] = "rc_deleteChannel"
         \/ (op[p] = "removeChannel" /\ pc[p] = "done" /\ result[p] = "ok") )
       => (~poolFailed[p] /\ poolQueue[p] = <<>> /\ poolActive[p] = {})

\* a deletion failed; records and channel are still there
C9_Witness ==
  \E p \in Procs :
    /\ poolFailed[p]
    /\ result[p] = "RazeeQueryError"
    /\ chanExists
    /\ \E r \in records : r.location = "s3"

\* ---- C10
\* C10: at most 5 S3 deletions of one removeChannel invocation are in flight.
C10_PoolBound ==
  \A p \in Procs : Cardinality(poolActive[p]) <= 5

\* 5 deletions run while more are queued
C10_Witness ==
  \E p \in Procs :
    /\ Cardinality(poolActive[p]) = 5
    /\ Len(poolQueue[p]) >= 2

\* ---- C11
\* C11: a removeChannelVersion of a version that has a record and is
\* subscribed to, and a removeChannel of a channel with subscriptions, end
\* at their first step and change nothing of the channel document, the
\* records, the stored objects and the subscriptions; unless the caller
\* is not authorized (removeChannel) or a call was rejected, the error is
\* the validation error and carries the number of subscriptions, at least 1.
C11_SubscribedNotRemoved ==
  [][\A p \in Procs :
       /\ ( /\ pc[p] = "idle" /\ pc'[p] # "idle"
            /\ op'[p] = "removeChannelVersion"
            /\ arg'[p] \in subs
            /\ \E r \in records : r.uuid = arg'[p] )
          => /\ pc'[p] = "done"
             /\ shared' = shared
             /\ result'[p] # "RazeeQueryError" =>
                  /\ result'[p] = "RazeeValidationError"
                  /\ ret'[p] = Cardinality({v \in subs : v = arg'[p]})
                  /\ ret'[p] >= 1
       /\ ( /\ pc[p] = "idle" /\ pc'[p] # "idle"
            /\ op'[p] = "removeChannel"
            /\ chanExists
            /\ subs # {} )
          => /\ pc'[p] = "done"
             /\ shared' = shared
             /\ result'[p] \notin {"RazeeQueryError", "RazeeForbiddenError"} =>
                  /\ result'[p] = "RazeeValidationError"
                  /\ ret'[p] = Cardinality(subs)
                  /\ ret'[p] >= 1]_vars

\* both removals were refused for the subscription of version 1
C11_Witness ==
  \E p, q \in Procs :
    /\ op[p] = "removeChannelVersion" /\ arg[p] \in subs
    /\ result[p] = "RazeeValidationError" /\ ret[p] = 1
    /\ op[q] = "removeChannel"
    /\ result[q] = "RazeeValidationError" /\ ret[q] = 1
    /\ chanExists
    /\ \E r \in records : r.uuid = arg[p]

\* ---- C12
\* the steps of the four mutations up to and including validAuth start at
Unauthorized == {"idle", "rv_findChannel"}

\* C12: in addChannelVersion, removeChannelVersion, removeChannel and
\* editChannel no step up to and including validAuth changes the channel
\* document, the records, the stored objects or the subscriptions; a
\* refused authorization comes from such a step and ends the invocation.
C12_AuthBeforeWrite ==
  [][\A p \in Procs :
       /\ ( /\ pc[p] \in Unauthorized /\ pc'[p] # pc[p]
            /\ op'[p] \in {"addChannelVersion", "removeChannelVersion",
                           "removeChannel", "editChannel"} )
          => shared' = shared
       /\ (result[p] = "none" /\ result'[p] = "RazeeForbiddenError")
          => /\ pc[p] \in Unauthorized
             /\ pc'[p] = "done"
             /\ shared' = shared]_vars

\* a removeChannelVersion and an editChannel were refused: the version and
\* the channel's name are as before
C12_Witness ==
  \E p, q \in Procs :
    /\ op[p] = "removeChannelVersion" /\ result[p] = "RazeeForbiddenError"
    /\ \E r \in records : r.uuid = arg[p]
    /\ arg[p] \in SummaryUuids
    /\ op[q] = "editChannel" /\ result[q] = "RazeeForbiddenError"
    /\ chanName = 0

\* ---- C13
\* C13: when the pre-check of addChannelVersion finds a record of the name
\* passed, the invocation ends there with the validation error (unless the
\* find itself was rejected) and has changed nothing: no object, no record,
\* no list entry; when no record has that name (none ever had, or the
\* version was removed), the pre-check lets the call through.
C13_DuplicateNameRejected ==
  [][\A p \in Procs :
       /\ ( /\ pc[p] = "idle" /\ pc'[p] # pc[p]
            /\ op'[p] = "addChannelVersion" )
          => shared' = shared
       /\ (pc[p] = "av_findVersions" /\ pc'[p] # pc[p])
          => /\ shared' = shared
             /\ IF \E r \in records : r.name = arg[p]
                THEN /\ pc'[p] = "done"
                     /\ result'[p] # "Error" =>
                          result'[p] = "RazeeValidationError"
                ELSE result'[p] # "Error" => pc'[p] = "av_count"]_vars

\* version 1 was removed and a version of its name added; nothing of the
\* removed version is left
C13_Witness ==
  \E p, q \in Procs :
    /\ op[q] = "removeChannelVersion" /\ result[q] = "ok" /\ arg[q] = 1
    /\ op[p] = "addChannelVersion" /\ result[p] = "ok" /\ arg[p] = 1
    /\ \A r \in records : r.name = 1 => r.uuid = UUID(p)
    /\ UUID(p) \in SummaryUuids

\* ---- C14
\* C14: when the count of addChannelVersion finds MAX_TOTAL records or more,
\* the invocation ends there with the validation error (unless the count
\* itself was rejected) and has changed nothing; when it finds fewer, the
\* call goes on to store the version.
C14_QuotaEnforced ==
  [][\A p \in Procs :
       (pc[p] = "av_count" /\ pc'[p] # pc[p])
         => /\ shared' = shared
            /\ IF Cardinality(records) >= MAX_TOTAL
               THEN /\ pc'[p] = "done"
                    /\ result'[p] # "Error" =>
                         result'[p] = "RazeeValidationError"
               ELSE result'[p] # "Error" =>
                      pc'[p] \in {"av_store", "av_create"}]_vars

\* on a channel of MAX_TOTAL - 1 versions one call has added the last
\* version, the next one, of a new name, was refused
C14_Witness ==
  \E p, q \in Procs :
    /\ op[p] = "addChannelVersion" /\ result[p] = "ok"
    /\ op[q] = "addChannelVersion" /\ result[q] = "RazeeValidationError"
    /\ ~\E r \in records : r.name = arg[q]
    /\ Cardinality(records) = MAX_TOTAL
    /\ Len(versions) = MAX_TOTAL

\* ---- C15
\* C15: channelVersion decrypts the record's content when the record's
\* location is 'mongo' and fetches the object when it is 's3';
\* removeChannelVersion deletes an object exactly when the record's
\* location is 's3'; removeChannel queues the deletions of exactly the
\* records whose location is 's3'; whatever conf.s3.endpoint is then.
C15_BackendFromRecord ==
  [][\A p \in Procs :
       /\ ( /\ pc[p] = "cv_findRecord" /\ pc'[p] # pc[p]
            /\ \E r \in records : r.uuid = arg[p] )
          => LET r == CHOOSE x \in records : x.uuid = arg[p]
             IN IF r.location = "mongo"
                THEN /\ pc'[p] = "done"
                     /\ result'[p] = "ok" =>
                          ret'[p] = DecryptOrgData(OrgKey, r.content)
                ELSE /\ result'[p] # "ok"
                     /\ pc'[p] # "done" =>
                          pc'[p] = "cv_getS3" /\ lrec'[p] = <<r>>
       /\ (pc[p] = "cv_getS3" /\ result'[p] = "ok")
          => \E o \in objects :
               /\ o.key = S3Key(lrec[p][1])
               /\ ret'[p] = DecryptFile(OrgKey, lrec[p][1].iv, o.data)
       /\ (pc[p] = "rv_findChannel" /\ pc'[p] \notin {pc[p], "done"})
          => pc'[p] = IF lrec[p][1].location = "s3" THEN "rv_deleteS3"
                      ELSE "rv_deleteRecord"
       /\ (pc[p] = "rc_findS3" /\ pc'[p] = "rc_pool")
          => {poolQueue'[p][i] : i \in 1..Len(poolQueue'[p])}
               = {S3Key(r) : r \in {x \in records : x.location = "s3"}}]_vars

\* with no S3 endpoint configured the S3-backed version 1 was read from its
\* object; a removeChannelVersion has then deleted the object and is about
\* to delete the record
C15_Witness ==
  \E p, q \in Procs :
    /\ ~s3conf
    /\ \E r \in records : r.uuid = 1 /\ r.location = "s3"
    /\ op[q] = "channelVersion" /\ result[q] = "ok" /\ arg[q] = 1
    /\ ret[q] = 1
    /\ op[p] = "removeChannelVersion" /\ arg[p] = 1
    /\ pc[p] = "rv_deleteRecord"
    /\ objects = {}

\* ---- C16
\* C16: a channelVersion that ends because the channel is absent, because
\* the channel's list has no summary of the version, or because the summary
\* has no record, ends with a NotFoundError (at the first two lookups a
\* refused authorization may come first).
C16_NotFoundReported ==
  [][\A p \in Procs :
       /\ ( /\ pc[p] = "idle" /\ pc'[p] = "done"
            /\ op'[p] = "channelVersion"
            /\ ~chanExists \/ FindIndex(versions, arg'[p]) = 0 )
          => result'[p] \in {"NotFoundError", "RazeeForbiddenError"}
       /\ ( /\ pc[p] = "cv_findRecord" /\ pc'[p] = "done"
            /\ ~\E r \in records : r.uuid = arg[p] )
          => result'[p] = "NotFoundError"]_vars

\* ---- C17
\* C17: an addChannelVersion, removeChannelVersion or removeChannel that
\* has ended has returned, or thrown one of the typed errors, or thrown the
\* generic RazeeQueryError: never the error of a backend call as it came.
C17_NoRawError ==
  \A p \in Procs :
    ( /\ pc[p] = "done"
      /\ op[p] \in {"addChannelVersion", "removeChannelVersion",
                     "removeChannel"} )
    => result[p] \in {"ok", "NotFoundError", "RazeeValidationError",
                       "RazeeForbiddenError", "RazeeQueryError"}

\* ---- C18
\* C18: a call that passed the argument checks has a non-empty
\* name, a recognized type, and exactly one of content and file, which is
\* not empty.
C18_ExactlyOneSource ==
  \A p \in Procs :
    pc[p] = "av_loadContent" =>
      /\ arg[p].name # ""
      /\ arg[p].type \in {"yaml", "application/yaml"}
      /\ (arg[p].content = "undefined") # (arg[p].file = "undefined")
      /\ LoadedContent(arg[p]) # ""

\* ---- C19
\* C19: in a run without removals, once an addChannelVersion has returned
\* success, a channelVersion of its version returns the content the call
\* submitted, and a record with location 's3' holds the url of the object,
\* not the content.
C19_RoundTrip ==
  (\A q \in Procs : op[q] \notin {"removeChannelVersion", "removeChannel"})
  => \A p \in Procs :
       (op[p] = "addChannelVersion" /\ result[p] = "ok") =>
         /\ QueryResult(UUID(p)) = <<"ok", Content(p)>>
         /\ \A r \in records :
              (r.uuid = UUID(p) /\ r.location = "s3") =>
                r.content = S3Url(arg[p])

\* ---- C20
\* C20: no step changes a record that stays: a record is there unchanged
\* for as long as a record of its uuid is; and a record that appears has a
\* new uuid and the location of the configuration at that moment, 's3' if
\* conf.s3.endpoint is set and 'mongo' otherwise.
C20_RecordsImmutable ==
  [][/\ \A r \in records :
          (\E x \in records' : x.uuid = r.uuid) =>
            {x \in records' : x.uuid = r.uuid} = {r}
     /\ \A r \in records' \ records :
          /\ \A x \in records : x.uuid # r.uuid
          /\ r.location = IF s3conf THEN "s3" ELSE "mongo"]_vars

\* with an S3 endpoint configured a version was added next to the inline
\* version 1, and the channel renamed: version 1 is as it was
C20_Witness ==
  \E p, q \in Procs :
    /\ s3conf
    /\ op[p] = "addChannelVersion" /\ result[p] = "ok"
    /\ \E r \in records : r.uuid = UUID(p) /\ r.location = "s3"
    /\ DeployableVersionObj(1, 1, "mongo", 1, 1) \in records
    /\ op[q] = "editChannel" /\ result[q] = "ok"
    /\ chanName = EditName(q)

\* ---- C21
\* the bytes of the content of invocation p, and the configured maximum
Bytes(p) == payload[p].ascii + 2 * payload[p].wide
MaxBytes == CHANNEL_VERSION_YAML_MAX_SIZE_LIMIT_MB * 1024 * 1024

\* C21: an addChannelVersion whose content has more bytes than
\* CHANNEL_VERSION_YAML_MAX_SIZE_LIMIT_MB * 1024 * 1024 changes nothing of
\* the channel, the records and the stored objects at any of its steps and
\* ends, once the count has let it through, with the validation error
\* (unless the count itself was rejected); one whose content has that many
\* bytes or fewer, and parses, goes on from there to store the version.
C21_SizeLimit ==
  [][\A p \in Procs :
       /\ (op'[p] = "addChannelVersion" /\ Bytes(p) > MaxBytes)
          => /\ pc'[p] # pc[p] => shared' = shared
             /\ result'[p] # "ok"
       /\ ( /\ pc[p] = "av_count" /\ pc'[p] # pc[p]
            /\ Cardinality(records) < MAX_TOTAL
            /\ result'[p] # "Error" )
          => IF Bytes(p) > MaxBytes
             THEN pc'[p] = "done" /\ result'[p] = "RazeeValidationError"
             ELSE IF payload[p].valid
             THEN pc'[p] \in {"av_store", "av_create"} /\ shared' = shared
             ELSE pc'[p] = "done" /\ result'[p] = "RazeeValidationError"]_vars

\* a content of exactly the maximum of bytes, one character of it of two
\* bytes, was stored
C21_Witness ==
  \E p \in Procs :
    /\ op[p] = "addChannelVersion" /\ result[p] = "ok"
    /\ Bytes(p) = MaxBytes
    /\ payload[p].wide = 1
    /\ \E r \in records : r.uuid = UUID(p)
    /\ UUID(p) \in SummaryUuids

\* ---- C22
\* C22: whenever a step of removeChannelVersion or removeChannel deletes the
\* record of a version whose location is 's3', the object of that record
\* has been deleted before: the bucket holds no object of the record's key.
C22_ObjectBeforeRecord ==
  [][\A r \in records \ records' :
       r.location = "s3" => ~\E o \in objects' : o.key = S3Key(r)]_vars

\* ---- C23
\* C23: a step of removeChannel that starts an object deletion takes it from
\* the queue, where it is no more (no deletion is started twice), and no
\* deletion is started once a deletion of the invocation has failed.
C23_HaltOnFailure ==
  [][\A p \in Procs :
       \A k \in poolActive'[p] \ poolActive[p] :
         /\ poolQueue[p] # <<>>
         /\ k = Head(poolQueue[p])
         /\ \A i \in 1..Len(poolQueue'[p]) : poolQueue'[p][i] # k
         /\ ~poolFailed[p]]_vars

\* ---- C24
\* C24: when every awaited call returns, an invocation that was started
\* ends, with its result or with an error, and the deletions handed to the
\* pool of a removeChannel are all started and all settle.
C24_Terminates ==
  \A p \in Procs :
    /\ (pc[p] \notin {"idle", "done"}) ~> (pc[p] = "done")
    /\ (poolQueue[p] # <<>> \/ poolActive[p] # {})
         ~> (poolQueue[p] = <<>> /\ poolActive[p] = {})

\* a removeChannel of a channel of PoolVersions S3-backed versions has
\* returned success: every object was deleted, then the records
C24_Witness ==
  \E p \in Procs :
    /\ op[p] = "removeChannel" /\ result[p] = "ok"
    /\ created = 1..PoolVersions
    /\ objects = {} /\ records = {}
    /\ poolQueue[p] = <<>> /\ poolActive[p] = {}

\* ---- C25
\* C25: the channel never has more than MAX_TOTAL version records.
C25_RecordsBounded == Cardinality(records) <= MAX_TOTAL

\* ---- C26
\* C26: the object at the key of a record whose location is 's3' is the one
\* the addChannelVersion that created the record has uploaded: it is
\* encrypted under the iv of the record.
C26_ObjectOfRecord ==
  \A r \in records :
    r.location = "s3" =>
      \A o \in objects :
        o.key = S3Key(r) => o.data[3] = r.iv

====
